---- MODULE Spec2Model ----
(***************************************************************************)
(* Model of src/src/client.rs: the retrying Client facade over RawClient,  *)
(* Client::height_at_timestamp, and the FinalizedHeadSubscription          *)
(* iterator.                                                               *)
(*                                                                         *)
(* Three specifications share the definitions below:                       *)
(*   Spec          one public Client operation, with its retry loop;       *)
(*   SpecResolver  Client::height_at_timestamp against a chain, every      *)
(*                 lookup going through the same retry loop;               *)
(*   SpecStream    a FinalizedHeadSubscription fed by the backend.         *)
(***************************************************************************)
EXTENDS Integers, Sequences, FiniteSets, TLC

VARIABLES
    call,        \* the public Client method the caller invoked
    op,          \* the RawClient method the retry loop is wrapping
    arg,         \* its argument (a height, a block hash, NoBlock, or 0)
    rpc,         \* position in the retry loop: idle, start, match, done, panicked
    res,         \* `res`: the result of the latest self.inner.<op>() call
    iter,        \* iterations of `for _ in 0..5` completed
    ret,         \* the value the Client method returned
    attempts,    \* number of times self.inner.<op>() has been invoked
    history,     \* the results those invocations returned, in order
    api,         \* what the chain backend (Api) answered on the latest invocation
    delivered,   \* create_twin, create_farm: times the extrinsic reached the node
    chain,       \* chain[h]: `Timestamp::Now` (milliseconds) of the block at height h >= 1
    ts,          \* height_at_timestamp: the target timestamp (seconds)
    latest_ts,   \* height_at_timestamp: `latest_ts`
    height,      \* height_at_timestamp: `height`
    last_height, \* height_at_timestamp: `last_height`
    hpc,         \* height_at_timestamp: latest, hash, time, returned, failed, panicked
    hres,        \* height_at_timestamp: what it returned (a height or a backend error)
    probed,      \* heights passed to get_hash_at_height so far in this run
    found,       \* heights whose get_hash_at_height returned a block in this run
    stream,      \* FinalizedHeadSubscription.stream: payloads in the channel
    senderOpen,  \* whether the backend still holds the sending end
    pushed,      \* every payload the backend pushed, in order
    yielded,     \* the headers successive next() calls returned, in order
    spc,         \* the consumer: running or panicked
    lastNext     \* what the latest next() call met and how it ended

retryVars == <<op, arg, rpc, res, iter, ret, attempts, history, api, delivered>>
resolverVars == <<chain, ts, latest_ts, height, last_height, hpc, hres, probed, found>>
streamVars == <<stream, senderOpen, pushed, yielded, spc, lastNext>>
vars == <<call, retryVars, resolverVars, streamVars>>

---------------------------------------------------------------------------
(* Bounds of the model. *)

\* Values a storage read or an extrinsic submission can answer with.
MaxValue == 2

Values == 1..MaxValue

\* Blocks on the chain, at most.
MaxHeight == 4

\* How many seconds before block 1 a target may lie.
MaxEarly == 13

\* How many seconds past the latest block a target may lie.
MaxLate == 1

\* Payloads the backend pushes into one subscription, at most.
MaxPush == 3

\* Block numbers a pushed header can carry: 1..MaxNumber.
MaxNumber == 2

\* Timestamp::Now of block 1 (milliseconds).
FirstBlockTimes == {20250}

\* Milliseconds between consecutive blocks: short, nominal, and a stall.
BlockIntervalsMs == {1000, 6000, 18000}

---------------------------------------------------------------------------
(* Program constants. *)

\* A loop that retries once too few.
MaxRetries_OneLess == 5 - 1

\* One more pass through the loop.
MaxRetries_OneMore == 5 + 1

\* `for _ in 0..5`: retries after the initial call.
MaxRetries == 5

\* const BLOCK_TIME_SECONDS: i64 = 6
BLOCK_TIME_SECONDS == 6

\* Option::None passed as `block`: no block hash, the latest block is meant.
NoBlock == -1

---------------------------------------------------------------------------
(* The public Client methods that wrap one RawClient call in the retry loop. *)

ClientOps ==
    { "create_twin", "get_twin_by_id", "create_farm", "get_farm_by_id",
      "get_farm_id_by_name", "farm_count", "get_account_free_balance",
      "get_node_by_id", "node_count", "get_contract_by_id", "contract_count",
      "get_farm_payout_address", "get_block_by_hash", "get_block_events",
      "block_timestamp", "get_hash_at_height", "finalized_block_headers" }

(* What the chain backend (substrate_api_client::Api) answers: a present   *)
(* value, an absent one, ApiClientError::Disconnected, or another error.   *)
(* An error carries the number of the invocation that produced it, which   *)
(* stands for its message.                                                 *)
ApiSome(v) == [tag |-> "Some", val |-> v]
ApiNone == [tag |-> "None", val |-> 0]
ApiDisconnected(n) == [tag |-> "Disconnected", val |-> n]
ApiOther(n) == [tag |-> "Other", val |-> n]

(* What a RawClient method returns: ApiResult<T>. *)
Ok(v) == [tag |-> "Ok", val |-> v]
OkNone == [tag |-> "OkNone", val |-> 0]
OkDefault == [tag |-> "OkDefault", val |-> 0]
ErrDisconnected(n) == [tag |-> "ErrDisconnected", val |-> n]
ErrOther(n) == [tag |-> "ErrOther", val |-> n]
Panic == [tag |-> "Panic", val |-> 0]
NoResult == [tag |-> "NoResult", val |-> 0]

IsOk(r) == r.tag \in {"Ok", "OkNone", "OkDefault"}
IsErr(r) == r.tag \in {"ErrDisconnected", "ErrOther"}

\* `?` and pass-through: an Api error becomes the method's error.
Propagate(out) ==
    IF out.tag = "Disconnected" THEN ErrDisconnected(out.val) ELSE ErrOther(out.val)

\* A pass-through that reads a dropped connection as an absent value.
PassThrough_DisconnectIsNone(out) ==
    CASE out.tag = "Some" -> Ok(out.val)
      [] out.tag \in {"None", "Disconnected"} -> OkNone
      [] OTHER -> Propagate(out)

\* Methods returning the Api's ApiResult<Option<T>> as it is.
PassThrough(out) ==
    CASE out.tag = "Some" -> Ok(out.val)
      [] out.tag = "None" -> OkNone
      [] OTHER -> Propagate(out)

\* get_twin_by_id, get_farm_id_by_name: `.unwrap()` on the ApiResult itself,
\* then `.or_else(|| Some(default)).unwrap()`.
UnwrapResult(out) ==
    CASE out.tag = "Some" -> Ok(out.val)
      [] out.tag = "None" -> OkDefault
      [] OTHER -> Panic

\* farm_count, node_count: `.map(|i| i.unwrap())`;
\* get_block_events, block_timestamp: `?` then `.unwrap()`.
UnwrapOption(out) ==
    CASE out.tag = "Some" -> Ok(out.val)
      [] out.tag = "None" -> Panic
      [] OTHER -> Propagate(out)

\* get_account_free_balance: `?` then `.or_else(default)`;
\* contract_count: `.map(|i| i.unwrap_or(0))`.
DefaultOption(out) ==
    CASE out.tag = "Some" -> Ok(out.val)
      [] out.tag = "None" -> OkDefault
      [] OTHER -> Propagate(out)

\* The result of self.inner.<o>() when the Api answers `out`.
RawResult(o, out) ==
    CASE o \in {"get_twin_by_id", "get_farm_id_by_name"} -> UnwrapResult(out)
      [] o \in {"farm_count", "node_count", "get_block_events", "block_timestamp"}
            -> UnwrapOption(out)
      [] o \in {"get_account_free_balance", "contract_count"} -> DefaultOption(out)
      [] OTHER -> PassThrough(out)

---------------------------------------------------------------------------
(* The chain the backend serves.  Block hashes are identified with the     *)
(* height of their block; height 0 is genesis, heights 1..Len(chain) are   *)
(* the produced blocks.                                                    *)

HashOf(h) == h
HeightOf(hash) == hash
BlockExists(h) == h \in 0..Len(chain)

\* Whether the caller is inside height_at_timestamp, whose lookups the
\* chain answers.
ResolverMode == call = "height_at_timestamp"

\* chain_getBlockHash(height): the hash when the block exists, else null.
HashAnswer(h) == IF BlockExists(h) THEN {ApiSome(HashOf(h))} ELSE {ApiNone}

\* Storage value Timestamp::Now at `block` (None: the latest block).  What
\* genesis holds is not fixed by this client: absent, or zero.
TimestampAnswer(block) ==
    CASE block = NoBlock -> {ApiSome(chain[Len(chain)])}
      [] block # NoBlock /\ HeightOf(block) = 0 -> {ApiNone, ApiSome(0)}
      [] OTHER -> {ApiSome(chain[HeightOf(block)])}

\* The values the Api can answer self.inner.<o>(a) with.
ApiValues(o, a) ==
    CASE ResolverMode /\ o = "get_hash_at_height" -> HashAnswer(a)
      [] ResolverMode /\ o = "block_timestamp" -> TimestampAnswer(a)
      [] o = "finalized_block_headers" -> {ApiSome(1)}
      [] OTHER -> {ApiSome(v) : v \in Values} \cup {ApiNone}

\* Every answer, the two kinds of error included; n numbers the invocation.
ApiOutcomes(o, a, n) == ApiValues(o, a) \cup {ApiDisconnected(n), ApiOther(n)}

---------------------------------------------------------------------------
(* The retry loop every public Client method repeats:                      *)
(*     let mut res = self.inner.op(..);                                    *)
(*     for _ in 0..5 {                                                     *)
(*         match res { Err(Disconnected(_)) => {}, x => return x }         *)
(*         res = self.inner.op(..);                                        *)
(*     }                                                                   *)
(*     res                                                                 *)

\* A match arm that swallows every error, not only Disconnected.
IsDisconnected_AnyErr(r) == IsErr(r)

\* The arm `Err(ApiClientError::Disconnected(_)) => {}`.
IsDisconnected(r) == r.tag = "ErrDisconnected"

\* The methods that submit an extrinsic (Api::send_extrinsic).
SubmitOps == {"create_twin", "create_farm"}

\* Whether an invocation answered `out` got its extrinsic to the node: it
\* did if the node replied; with an error, the connection may have dropped
\* before the request left or after the node took it.
Reached(o, out) ==
    CASE o \notin SubmitOps -> {FALSE}
      [] o \in SubmitOps /\ out.tag \in {"Some", "None"} -> {TRUE}
      [] OTHER -> {TRUE, FALSE}

\* One invocation of self.inner.<op>(arg), answered `out` by the Api; the
\* loop index becomes `i`.  A panic inside RawClient unwinds the caller.
Invoke(out, i, reached) ==
    LET r == RawResult(op, out) IN
    /\ api' = out
    /\ attempts' = attempts + 1
    /\ delivered' = IF reached THEN delivered + 1 ELSE delivered
    /\ iter' = i
    /\ IF r = Panic
         THEN /\ rpc' = "panicked"
              /\ UNCHANGED <<res, history>>
         ELSE /\ rpc' = "match"
              /\ res' = r
              /\ history' = Append(history, r)
    /\ UNCHANGED <<op, arg, ret>>

\* `let mut res = self.inner.op(..);`
FirstCall ==
    /\ rpc = "start"
    /\ \E out \in ApiOutcomes(op, arg, attempts + 1) :
           \E reached \in Reached(op, out) : Invoke(out, 0, reached)
    /\ UNCHANGED <<call, resolverVars, streamVars>>

\* One iteration of the for loop on a disconnect: fall out of the match and
\* call again.
Retry ==
    /\ rpc = "match"
    /\ iter < MaxRetries
    /\ IsDisconnected(res)
    /\ \E out \in ApiOutcomes(op, arg, attempts + 1) :
           \E reached \in Reached(op, out) : Invoke(out, iter + 1, reached)
    /\ UNCHANGED <<call, resolverVars, streamVars>>

\* `x => return x`
ReturnEarly ==
    /\ rpc = "match"
    /\ iter < MaxRetries
    /\ ~IsDisconnected(res)
    /\ rpc' = "done"
    /\ ret' = res
    /\ UNCHANGED <<call, op, arg, res, iter, attempts, history, api, delivered>>
    /\ UNCHANGED <<resolverVars, streamVars>>

\* The loop is over: the trailing `res`.
ReturnLast ==
    /\ rpc = "match"
    /\ iter = MaxRetries
    /\ rpc' = "done"
    /\ ret' = res
    /\ UNCHANGED <<call, op, arg, res, iter, attempts, history, api, delivered>>
    /\ UNCHANGED <<resolverVars, streamVars>>

\* The retry loop starts for self.inner.<o>(a).
StartCall(o, a) ==
    /\ op' = o
    /\ arg' = a
    /\ rpc' = "start"
    /\ res' = NoResult
    /\ ret' = NoResult
    /\ iter' = 0
    /\ attempts' = 0
    /\ history' = <<>>
    /\ api' = ApiNone
    /\ delivered' = 0

---------------------------------------------------------------------------
(* States outside the component a specification exercises. *)

ResolverIdle ==
    /\ chain = <<>>
    /\ ts = 0
    /\ latest_ts = 0
    /\ height = 0
    /\ last_height = 0
    /\ hpc = "idle"
    /\ hres = NoResult
    /\ probed = {}
    /\ found = {}

StreamIdle ==
    /\ stream = <<>>
    /\ senderOpen = FALSE
    /\ pushed = <<>>
    /\ yielded = <<>>
    /\ spc = "idle"
    /\ lastNext = [met |-> "none", out |-> "none"]

RetryIdle ==
    /\ op = "none"
    /\ arg = 0
    /\ rpc = "idle"
    /\ res = NoResult
    /\ ret = NoResult
    /\ iter = 0
    /\ attempts = 0
    /\ history = <<>>
    /\ api = ApiNone
    /\ delivered = 0

---------------------------------------------------------------------------
(* Spec: the caller invokes one public Client method. *)

Init ==
    /\ call \in ClientOps
    /\ op = call
    /\ arg = 0
    /\ rpc = "start"
    /\ res = NoResult
    /\ ret = NoResult
    /\ iter = 0
    /\ attempts = 0
    /\ history = <<>>
    /\ api = ApiNone
    /\ delivered = 0
    /\ ResolverIdle
    /\ StreamIdle

Next == FirstCall \/ Retry \/ ReturnEarly \/ ReturnLast

Spec == Init /\ [][Next]_vars

---------------------------------------------------------------------------
(* Claims about the retry loop, checked under Spec. *)

\* The transient disconnects among the results the backend call returned.
Disconnects == {i \in 1..Len(history) : history[i].tag = "ErrDisconnected"}

\* C1: when a retried Client call has returned after the backend call failed
\* with a transient disconnect k times, the backend call was invoked exactly
\* min(k+1, 6) times; the call succeeded only if k < 6 and the (k+1)-th
\* invocation succeeded, which is then the result; and a call that returns a
\* disconnect has made 6 invocations and returns the error of the 6th.
C1_RetryBudget ==
    rpc = "done" =>
        LET n == Len(history)
            k == Cardinality(Disconnects)
        IN  /\ attempts = n
            /\ n = IF k + 1 < 6 THEN k + 1 ELSE 6
            /\ \A i \in 1..k : i \in Disconnects
            /\ IsOk(ret) <=> (k < 6 /\ IsOk(history[k + 1]))
            /\ IsOk(ret) => ret = history[k + 1]
            /\ k >= 6 => ret = ErrDisconnected(6)

\* C1 witness: six disconnects in a row, and the call has returned.
C1_Witness ==
    /\ rpc = "done"
    /\ Cardinality(Disconnects) = 6
    /\ ret.tag = "ErrDisconnected"

\* C2: no invocation follows a result that is not a transient disconnect,
\* and once the call has returned after such a result at attempt j, the
\* backend call was invoked exactly j times and the caller holds that very
\* result.
C2_FirstFinalResultEnds ==
    LET n == Len(history) IN
    /\ \A i \in 1..(n - 1) : history[i].tag = "ErrDisconnected"
    /\ n <= 6
    /\ (rpc = "done" /\ history[n].tag # "ErrDisconnected") =>
           /\ attempts = n
           /\ ret = history[n]

\* C2 witness: a non-transient error on the first attempt, returned at once.
C2_Witness ==
    /\ rpc = "done"
    /\ attempts = 1
    /\ ret.tag = "ErrOther"

\* C3: in every public Client operation a transient disconnect reported by
\* the chain backend is followed by a re-issue of the call (up to 6
\* attempts): it never crashes the caller, and the call gives up on a
\* disconnect only at the 6th attempt.
C3_UniformRetry ==
    /\ api.tag = "Disconnected" => rpc # "panicked"
    /\ (rpc = "done" /\ api.tag = "Disconnected") => attempts = 6

---------------------------------------------------------------------------
(* Client::height_at_timestamp. *)

\* Rust's `/` on i64: truncation toward zero (b > 0).
TruncDiv(a, b) == IF a >= 0 THEN a \div b ELSE -((-a) \div b)

\* `as u32` of an i64: x mod 2^32.  A value in 0..2^31-1 is kept; a negative
\* one wraps to x + 2^32 (2^32 written as a sum of numbers TLC can hold).
AsU32(x) == IF x >= 0 THEN x ELSE ((x + 2147483647) + 2147483647) + 2

\* `... / 1000`: the stored milliseconds as seconds.
ToSeconds(ms) == TruncDiv(ms, 1000)

\* `let time_delta = ts - block_time;`
TimeDelta(t, block_time) == t - block_time

\* `let block_delta = time_delta / BLOCK_TIME_SECONDS;`
BlockDelta(time_delta) == TruncDiv(time_delta, BLOCK_TIME_SECONDS)

\* A check that lets a target one second past the latest block through.
IsFuture_OffByOne(latest, t) == latest + 1 < t

\* `if latest_ts < ts`
IsFuture(latest, t) == latest < t

\* A check that refuses every step back.
IsNegative_AnyStepBack(h, block_delta) == block_delta < 0

\* `if (height as i64 + block_delta) < 0`
IsNegative(h, block_delta) == h + block_delta < 0

\* A miss that leaves the estimate where it is.
Midpoint_KeepHeight(h, last) == h

\* A midpoint rounded up.
Midpoint_RoundedUp(h, last) == (h + last + 1) \div 2

\* `height = (height + last_height) / 2;` on u32
Midpoint(h, last) == (h + last) \div 2

\* A miss that records the missing height as the last one.
LastAfterMiss_Override(h, last) == h

\* `Don't override last_height`: a miss leaves last_height as it is.
LastAfterMiss(h, last) == last

\* The two branches exchanged.
Converged_Swapped(h, time_delta) == IF time_delta >= 0 THEN AsU32(h) ELSE AsU32(h + 1)

\* Both branches returning the probed height.
Converged_SameHeight(h, time_delta) == AsU32(h)

\* The value returned when block_delta == 0.
Converged(h, time_delta) == IF time_delta >= 0 THEN AsU32(h + 1) ELSE AsU32(h)

\* `self.get_hash_at_height(h)` begins.
StartHashLookup(h) ==
    /\ StartCall("get_hash_at_height", h)
    /\ probed' = probed \cup {h}

Running == hpc \in {"latest", "hash", "time"}

\* `?`: a lookup that returned an error ends the call with that error.
LookupFailed ==
    /\ Running
    /\ rpc = "done"
    /\ IsErr(ret)
    /\ hpc' = "failed"
    /\ hres' = ret
    /\ UNCHANGED <<call, retryVars, streamVars>>
    /\ UNCHANGED <<chain, ts, latest_ts, height, last_height, probed, found>>

\* A panic inside a lookup unwinds height_at_timestamp too.
LookupPanicked ==
    /\ Running
    /\ rpc = "panicked"
    /\ hpc' = "panicked"
    /\ UNCHANGED <<call, retryVars, streamVars>>
    /\ UNCHANGED <<chain, ts, latest_ts, height, last_height, hres, probed, found>>

\* Lines 313-319: the latest block is older than the target.
FutureTimestamp ==
    /\ hpc = "latest"
    /\ rpc = "done"
    /\ IsOk(ret)
    /\ IsFuture(ToSeconds(ret.val), ts)
    /\ latest_ts' = ToSeconds(ret.val)
    /\ hpc' = "panicked"
    /\ UNCHANGED <<call, retryVars, streamVars>>
    /\ UNCHANGED <<chain, ts, height, last_height, hres, probed, found>>

\* Lines 313-323: the check passes; the search starts at height 1.
StartSearch ==
    /\ hpc = "latest"
    /\ rpc = "done"
    /\ IsOk(ret)
    /\ ~IsFuture(ToSeconds(ret.val), ts)
    /\ latest_ts' = ToSeconds(ret.val)
    /\ height' = 1
    /\ last_height' = 1
    /\ hpc' = "hash"
    /\ StartHashLookup(1)
    /\ UNCHANGED <<call, chain, ts, hres, found, streamVars>>

\* Lines 326-331: no block at `height`; halve toward last_height, continue.
HashMissing ==
    /\ hpc = "hash"
    /\ rpc = "done"
    /\ ret = OkNone
    /\ height' = Midpoint(height, last_height)
    /\ last_height' = LastAfterMiss(height, last_height)
    /\ StartHashLookup(Midpoint(height, last_height))
    /\ UNCHANGED <<call, chain, ts, latest_ts, hpc, hres, found, streamVars>>

\* Lines 324, 334: the block exists; read its timestamp.
HashFound ==
    /\ hpc = "hash"
    /\ rpc = "done"
    /\ ret.tag = "Ok"
    /\ hpc' = "time"
    /\ StartCall("block_timestamp", ret.val)
    /\ UNCHANGED <<call, streamVars>>
    /\ found' = found \cup {height}
    /\ UNCHANGED <<chain, ts, latest_ts, height, last_height, hres, probed>>

\* Lines 334-345: block_delta == 0, the search has converged.
Return ==
    /\ hpc = "time"
    /\ rpc = "done"
    /\ IsOk(ret)
    /\ LET time_delta == TimeDelta(ts, ToSeconds(ret.val)) IN
       /\ BlockDelta(time_delta) = 0
       /\ hres' = Ok(Converged(height, time_delta))
    /\ hpc' = "returned"
    /\ UNCHANGED <<call, retryVars, streamVars>>
    /\ UNCHANGED <<chain, ts, latest_ts, height, last_height, probed, found>>

\* Lines 346-352: the estimate would be negative.
NegativeHeight ==
    /\ hpc = "time"
    /\ rpc = "done"
    /\ IsOk(ret)
    /\ LET block_delta == BlockDelta(TimeDelta(ts, ToSeconds(ret.val))) IN
       /\ block_delta # 0
       /\ IsNegative(height, block_delta)
    /\ hpc' = "panicked"
    /\ UNCHANGED <<call, retryVars, streamVars>>
    /\ UNCHANGED <<chain, ts, latest_ts, height, last_height, hres, probed, found>>

\* Lines 354-358: move the estimate by block_delta, continue.
Advance ==
    /\ hpc = "time"
    /\ rpc = "done"
    /\ IsOk(ret)
    /\ LET block_delta == BlockDelta(TimeDelta(ts, ToSeconds(ret.val))) IN
       /\ block_delta # 0
       /\ ~IsNegative(height, block_delta)
       /\ last_height' = height
       /\ height' = AsU32(height + block_delta)
       /\ StartHashLookup(AsU32(height + block_delta))
    /\ hpc' = "hash"
    /\ UNCHANGED <<call, chain, ts, latest_ts, hres, found, streamVars>>

\* The chain grows while the caller is searching: a new block, not older
\* than the latest one.
ProduceBlock ==
    /\ Running
    /\ Len(chain) < MaxHeight
    /\ \E d \in BlockIntervalsMs : chain' = Append(chain, chain[Len(chain)] + d)
    /\ UNCHANGED <<call, retryVars, streamVars>>
    /\ UNCHANGED <<ts, latest_ts, height, last_height, hpc, hres, probed, found>>

\* The chains of n blocks whose intervals are drawn from BlockIntervalsMs.
RECURSIVE ChainsOfLen(_)
ChainsOfLen(n) ==
    IF n = 1 THEN {<<t>> : t \in FirstBlockTimes}
    ELSE {Append(c, c[n - 1] + d) : c \in ChainsOfLen(n - 1), d \in BlockIntervalsMs}

Chains == UNION {ChainsOfLen(n) : n \in 1..MaxHeight}

\* The targets tried on chain c: from before block 1 to past the latest block.
Targets(c) == (ToSeconds(c[1]) - MaxEarly)..(ToSeconds(c[Len(c)]) + MaxLate)

\* SpecResolver: the caller invokes height_at_timestamp(ts); line 313 is
\* about to call self.block_timestamp(None).
InitResolver ==
    /\ call = "height_at_timestamp"
    /\ chain \in Chains
    /\ ts \in Targets(chain)
    /\ latest_ts = 0
    /\ height = 0
    /\ last_height = 0
    /\ hpc = "latest"
    /\ hres = NoResult
    /\ probed = {}
    /\ found = {}
    /\ op = "block_timestamp"
    /\ arg = NoBlock
    /\ rpc = "start"
    /\ res = NoResult
    /\ ret = NoResult
    /\ iter = 0
    /\ attempts = 0
    /\ history = <<>>
    /\ api = ApiNone
    /\ delivered = 0
    /\ StreamIdle

NextResolver ==
    \/ FirstCall
    \/ Retry
    \/ ReturnEarly
    \/ ReturnLast
    \/ LookupFailed
    \/ LookupPanicked
    \/ FutureTimestamp
    \/ StartSearch
    \/ HashMissing
    \/ HashFound
    \/ Return
    \/ NegativeHeight
    \/ Advance
    \/ ProduceBlock

SpecResolver == InitResolver /\ [][NextResolver]_vars

\* The caller's thread keeps running: a step that can be taken is taken.
SpecResolverFair == SpecResolver /\ WF_vars(NextResolver)

\* The same call on a chain that does not grow meanwhile.
NextResolverFixed ==
    \/ FirstCall
    \/ Retry
    \/ ReturnEarly
    \/ ReturnLast
    \/ LookupFailed
    \/ LookupPanicked
    \/ FutureTimestamp
    \/ StartSearch
    \/ HashMissing
    \/ HashFound
    \/ Return
    \/ NegativeHeight
    \/ Advance

SpecResolverFixed == InitResolver /\ [][NextResolverFixed]_vars

\* The same, with the caller's thread kept running.
SpecResolverFixedFair == SpecResolverFixed /\ WF_vars(NextResolverFixed)

---------------------------------------------------------------------------
(* Claims about height_at_timestamp, checked under SpecResolver. *)

\* The timestamp of the block at height h >= 1, in seconds.
Sec(h) == chain[h] \div 1000

Tip == Len(chain)

\* C4: whenever height_at_timestamp returns a height h, the block at h has
\* a timestamp at or after the target and the block at h-1 a timestamp
\* strictly before it.
C4_Straddle ==
    hpc = "returned" =>
        LET h == hres.val IN
        /\ h \in 1..Tip
        /\ Sec(h) >= ts
        /\ h > 1 => Sec(h - 1) < ts

\* Consecutive blocks are exactly 6 seconds apart.
RegularChain == \A h \in 2..Tip : Sec(h) - Sec(h - 1) = 6

\* C5: on a chain of blocks 6 seconds apart starting at height 1 with
\* timestamp T0, a call with target T0 + 6*m + 3 (m >= 0) that passed the
\* future check does not panic, probes only heights 1 and m + 1, and returns
\* m + 2 when it returns; a call with target T0 returns 2.
C5_RegularChain ==
    LET off == ts - Sec(1)
        m == off \div 6
    IN  (RegularChain /\ off >= 0 /\ (off % 6 = 3 \/ off = 0)) =>
            /\ hpc = "returned" => hres = Ok(m + 2)
            /\ hpc = "panicked" => latest_ts < ts
            /\ probed \subseteq {1, m + 1}

\* C5 witness: target T0 + 9 on a regular chain of at least 3 blocks
\* resolved to height 3.
C5_Witness ==
    /\ hpc = "returned"
    /\ RegularChain
    /\ Tip >= 3
    /\ ts = Sec(1) + 9
    /\ hres = Ok(3)

\* Exactly one interval is 1 second, every other one 6 seconds.
OneShortInterval ==
    /\ Cardinality({h \in 2..Tip : Sec(h) - Sec(h - 1) = 1}) = 1
    /\ \A h \in 2..Tip : Sec(h) - Sec(h - 1) \in {1, 6}

\* The brute-force scan: the height h with Sec(h-1) < t <= Sec(h).
LinearScan(t) ==
    CHOOSE h \in 1..Tip : (h = 1 \/ Sec(h - 1) < t) /\ t <= Sec(h)

\* C6: on a chain with one 1-second interval among 6-second ones, for a
\* target between block 1's and the latest block's timestamp, the height
\* returned is the one the linear scan finds.
C6_MatchesLinearScan ==
    (hpc = "returned" /\ OneShortInterval /\ Sec(1) <= ts /\ ts <= Sec(Tip)) =>
        hres = Ok(LinearScan(ts))

\* C7: while the target is later than the latest block's timestamp the call
\* has looked up no hash and returned no height; it is at the check, or the
\* check's lookup failed, or it panicked; and a call past the check has a
\* target not later than the latest timestamp it read.
C7_FutureTargetRejected ==
    /\ ts > Sec(Tip) =>
           /\ hpc \in {"latest", "failed", "panicked"}
           /\ probed = {}
           /\ hres.tag # "Ok"
    /\ hpc \in {"hash", "time", "returned"} => ts <= latest_ts
    /\ (hpc = "latest" /\ rpc = "done" /\ IsOk(ret) /\ ret.val \div 1000 < ts) =>
           ENABLED FutureTimestamp /\ ~ENABLED StartSearch

\* C7 witness: the call panicked on a target past the latest block.
C7_Witness ==
    /\ hpc = "panicked"
    /\ ts > Sec(Tip)
    /\ latest_ts = Sec(Tip)
    /\ probed = {}

---------------------------------------------------------------------------
(* FinalizedHeadSubscription: the receiving end of the mpsc channel the    *)
(* backend pushes text payloads into, read by Iterator::next.              *)

\* runtime::Header, reduced to its block number.
Headers == {[number |-> n] : n \in 1..MaxNumber}

Digits == <<"1", "2", "3", "4", "5", "6", "7", "8", "9">>

\* The JSON text of a header, as the backend pushes it.
Encode(h) == <<"{", "number", ":", Digits[h.number], "}">>

\* A payload cut short.
Truncated(h) == <<"{", "number", ":", Digits[h.number]>>

Payloads == {Encode(h) : h \in Headers} \cup {Truncated(h) : h \in Headers}

\* serde_json::from_str(&header_str): the header, or a decode error.
FromStr(p) ==
    IF /\ Len(p) = 5
       /\ p[1] = "{" /\ p[2] = "number" /\ p[3] = ":" /\ p[5] = "}"
       /\ \E n \in 1..Len(Digits) : Digits[n] = p[4]
    THEN [tag |-> "Ok",
          val |-> [number |-> CHOOSE n \in 1..Len(Digits) : Digits[n] = p[4]]]
    ELSE [tag |-> "Err", val |-> [number |-> 0]]

\* A receiver handing out the newest message first.
Recv_Newest(q) == q[Len(q)]

\* mpsc::Receiver::recv on a non-empty channel: the oldest message.
Recv(q) == Head(q)

\* The backend pushes a payload (Sender::send).
Push(p) ==
    /\ spc = "running"
    /\ senderOpen
    /\ Len(pushed) < MaxPush
    /\ stream' = Append(stream, p)
    /\ pushed' = Append(pushed, p)
    /\ UNCHANGED <<call, retryVars, resolverVars, senderOpen, yielded, spc, lastNext>>

\* The backend drops the sending end: the subscription is over.
CloseSender ==
    /\ spc = "running"
    /\ senderOpen
    /\ senderOpen' = FALSE
    /\ UNCHANGED <<call, retryVars, resolverVars, stream, pushed, yielded, spc, lastNext>>

\* next(): recv() hands over a payload that decodes; Some(header).
NextHeader ==
    /\ spc = "running"
    /\ stream # <<>>
    /\ FromStr(Recv(stream)).tag = "Ok"
    /\ yielded' = Append(yielded, FromStr(Recv(stream)).val)
    /\ stream' = Tail(stream)
    /\ lastNext' = [met |-> "header", out |-> "Some"]
    /\ UNCHANGED <<call, retryVars, resolverVars, senderOpen, pushed, spc>>

\* next(): recv() hands over a payload that does not decode; the
\* `.unwrap()` of serde_json's error panics.
NextMalformed ==
    /\ spc = "running"
    /\ stream # <<>>
    /\ FromStr(Recv(stream)).tag = "Err"
    /\ stream' = Tail(stream)
    /\ spc' = "panicked"
    /\ lastNext' = [met |-> "malformed", out |-> "panic"]
    /\ UNCHANGED <<call, retryVars, resolverVars, senderOpen, pushed, yielded>>

\* next(): the channel is empty and its sender gone; recv() returns
\* Err(RecvError) and the `.unwrap()` panics.  (With the sender alive,
\* recv() blocks: no step.)
NextOnClosed ==
    /\ spc = "running"
    /\ stream = <<>>
    /\ ~senderOpen
    /\ spc' = "panicked"
    /\ lastNext' = [met |-> "closed", out |-> "panic"]
    /\ UNCHANGED <<call, retryVars, resolverVars, stream, senderOpen, pushed, yielded>>

\* SpecStream: finalized_block_headers() has returned the subscription.
InitStream ==
    /\ call = "finalized_block_headers"
    /\ RetryIdle
    /\ ResolverIdle
    /\ stream = <<>>
    /\ senderOpen = TRUE
    /\ pushed = <<>>
    /\ yielded = <<>>
    /\ spc = "running"
    /\ lastNext = [met |-> "none", out |-> "none"]

NextStream ==
    \/ \E p \in Payloads : Push(p)
    \/ CloseSender
    \/ NextHeader
    \/ NextMalformed
    \/ NextOnClosed

SpecStream == InitStream /\ [][NextStream]_vars

---------------------------------------------------------------------------
(* Claims about the subscription, checked under SpecStream. *)

\* C8: under any interleaving of pushes and next() calls, the headers the
\* next() calls have returned are, in order, the first payloads pushed, none
\* dropped, duplicated or reordered; and while the consumer runs, what it
\* has not yet returned is exactly what the channel still holds.
C8_FifoPrefix ==
    /\ Len(yielded) <= Len(pushed)
    /\ \A i \in 1..Len(yielded) : pushed[i] = Encode(yielded[i])
    /\ spc = "running" =>
           stream = SubSeq(pushed, Len(yielded) + 1, Len(pushed))

\* C8 witness: two different headers returned while a third payload waits.
C8_Witness ==
    /\ Len(yielded) = 2
    /\ yielded[1] # yielded[2]
    /\ Len(stream) = 1

\* C9: a next() call that finds the channel closed and drained returns
\* None, without an error or a crash, and next() returns None only then.
C9_EndOfStream ==
    /\ lastNext.met = "closed" => (lastNext.out = "None" /\ spc = "running")
    /\ lastNext.out = "None" => lastNext.met = "closed"

\* C10: a next() call that receives a malformed payload reports a decode
\* error for that call only: the consumer keeps running, so that later
\* payloads are still returned.
C10_DecodeErrorIsolated ==
    lastNext.met = "malformed" => (lastNext.out = "DecodeError" /\ spc = "running")

---------------------------------------------------------------------------
(* Claims about the search loop of height_at_timestamp. *)

\* The timestamp (seconds) the chain holds for height h; genesis holds 0
\* when it holds one.
BlockTime(h) == IF h = 0 THEN 0 ELSE Sec(h)

\* C11: height_at_timestamp has returned only from an iteration whose
\* probed height has a block less than 6 seconds from the target (the only
\* case in which trunc((target - block_time) / 6) is 0), and the value is
\* height + 1 when the target is at or after that block, height when before.
C11_ReturnsOnlyWhenConverged ==
    hpc = "returned" =>
        /\ height \in 0..Tip
        /\ height \in found
        /\ ret = Ok(IF height = 0 THEN 0 ELSE chain[height])
        /\ ts - BlockTime(height) \in (-5)..5
        /\ hres = Ok(IF ts >= BlockTime(height) THEN height + 1 ELSE height)

\* C11 witness: a return from the branch `target < block_time`, after a
\* jump past the target.
C11_Witness ==
    /\ hpc = "returned"
    /\ height > 1
    /\ ts < BlockTime(height)
    /\ hres = Ok(height)

\* The call is over: it returned a height or an error, or it panicked.
Done == hpc \in {"returned", "failed", "panicked"}

\* C12: height_at_timestamp terminates for a target between block 1's and
\* the latest block's timestamp: it eventually returns or fails.
C12_Terminates == (Sec(1) <= ts /\ ts <= Sec(Tip)) => <>Done

\* trunc((target - block_time) / 6) for the timestamp `ms` just read.
DeltaFor(ms) ==
    LET d == ts - (ms \div 1000)
    IN  IF d >= 0 THEN d \div 6 ELSE -((-d) \div 6)

\* C13: in the step that follows a timestamp read with block_delta # 0, the
\* call panics without another lookup when height + block_delta < 0;
\* otherwise last_height becomes the current height, height becomes
\* height + block_delta, and that value is what the next hash lookup gets.
\* Every height handed to get_hash_at_height is the non-negative estimate.
C13_NegativeEstimateRefused ==
    [][ /\ \A h \in probed' : h >= 0
        /\ (op' = "get_hash_at_height" /\ rpc' = "start") =>
               (arg' = height' /\ height' \in probed')
        /\ (hpc = "time" /\ rpc = "done" /\ IsOk(ret) /\ chain' = chain) =>
               LET bd == DeltaFor(ret.val) IN
               /\ (bd # 0 /\ height + bd < 0) =>
                      /\ hpc' = "panicked"
                      /\ probed' = probed
                      /\ UNCHANGED retryVars
               /\ (bd # 0 /\ height + bd >= 0) =>
                      /\ hpc' = "hash"
                      /\ last_height' = height
                      /\ height' = height + bd
                      /\ probed' = probed \cup {height + bd}
      ]_vars

\* C13 witness: the panic on a negative estimate, right after a timestamp
\* read.
C13_Witness ==
    /\ hpc = "panicked"
    /\ op = "block_timestamp"
    /\ arg # NoBlock
    /\ rpc = "done"
    /\ height + DeltaFor(ret.val) < 0

\* A hash lookup has just reported that no block exists at `height`.
Missed == hpc = "hash" /\ rpc = "done" /\ ret = OkNone

\* C14: the iteration that handles "no block at this height" sets height to
\* floor((height + last_height) / 2), leaves last_height alone, issues no
\* timestamp lookup and goes on with a new hash lookup at the new height.
C14_MissOnlyMovesEstimate ==
    [][ (Missed /\ chain' = chain) =>
            /\ height' = (height + last_height) \div 2
            /\ last_height' = last_height
            /\ hpc' = "hash"
            /\ op' = "get_hash_at_height"
            /\ arg' = height'
            /\ rpc' = "start"
            /\ attempts' = 0
            /\ UNCHANGED <<ts, latest_ts, hres, found>>
      ]_vars

\* C14 witness: a hash lookup is starting at the midpoint of a height that
\* had no block and an unchanged last_height.
C14_Witness ==
    /\ hpc = "hash"
    /\ rpc = "start"
    /\ op = "get_hash_at_height"
    /\ \E h \in probed :
           /\ h > Tip
           /\ h > last_height + 1
           /\ h \notin found
           /\ height = (h + last_height) \div 2
           /\ height < h

\* The estimate is past the tip while the block at last_height exists.
Overshot == hpc = "hash" /\ height > Tip /\ last_height \in 1..Tip

\* C15: while the estimate is past the tip and the block at last_height
\* exists, each "no block" iteration strictly lowers the estimate and keeps
\* it at or above last_height, and after finitely many of them the lookup is
\* at a height where a block exists (unless the lookup itself fails).
C15_BisectionReachesBlock ==
    /\ [][ (Missed /\ Overshot /\ chain' = chain) =>
               /\ height' < height
               /\ height' >= last_height
               /\ last_height' \in 1..Tip
         ]_vars
    /\ (Overshot ~> (height \in 1..Tip \/ Done))

\* C15 witness: two misses in a row brought the estimate down to a height
\* that has a block.
C15_Witness ==
    /\ hpc = "hash"
    /\ height \in 1..Tip
    /\ height \notin found
    /\ \E h1, h2 \in probed :
           /\ h1 > h2
           /\ h2 > Tip
           /\ h2 = (h1 + last_height) \div 2
           /\ height = (h2 + last_height) \div 2

\* What the fixed chain answers a lookup that does not end in an error.
ChainAnswer(o, a) ==
    CASE o = "get_hash_at_height" -> IF a \in 0..Tip THEN Ok(a) ELSE OkNone
      [] o = "block_timestamp" /\ a = NoBlock -> Ok(chain[Tip])
      [] OTHER -> Ok(IF a = 0 THEN 0 ELSE chain[a])

\* One loop iteration from (h, last) in a run without any disconnect,
\* computed from the chain alone.
RefIter(h, last) ==
    IF h \notin 0..Tip
      THEN [kind |-> "continue", height |-> (h + last) \div 2, last |-> last,
            value |-> 0]
      ELSE LET bd == DeltaFor(IF h = 0 THEN 0 ELSE chain[h]) IN
           CASE bd = 0 ->
                  [kind |-> "return", height |-> h, last |-> last,
                   value |-> IF ts >= BlockTime(h) THEN h + 1 ELSE h]
             [] bd # 0 /\ h + bd < 0 ->
                  [kind |-> "panic", height |-> h, last |-> last, value |-> 0]
             [] OTHER ->
                  [kind |-> "continue", height |-> h + bd, last |-> h,
                   value |-> 0]

\* C16: on a chain that does not change, every lookup of height_at_timestamp
\* starts a retry loop of its own with at most 6 attempts; a lookup that does
\* not end in an error returns what the chain holds however many disconnects
\* came first; the call fails only on a non-disconnect error or on 6
\* disconnects in a row of one lookup; and every move of (height,
\* last_height), every returned height and every panic is the one a run
\* without disconnects makes from the same (height, last_height).
C16_DisconnectsDoNotChangeSearch ==
    [][ LET r == RefIter(height, last_height) IN
        /\ (rpc' = "start") => (attempts' = 0 /\ history' = <<>>)
        /\ attempts' <= 6
        /\ (rpc # "done" /\ rpc' = "done" /\ IsOk(ret')) =>
               ret' = ChainAnswer(op, arg)
        /\ (hpc # "failed" /\ hpc' = "failed") =>
               \/ ret.tag = "ErrOther"
               \/ /\ attempts = 6
                  /\ \A i \in 1..6 : history[i].tag = "ErrDisconnected"
        /\ (hpc = "latest" /\ hpc' = "hash") =>
               (ts <= Sec(Tip) /\ height' = 1 /\ last_height' = 1)
        /\ (hpc = "latest" /\ hpc' = "panicked") => ts > Sec(Tip)
        /\ (hpc \in {"hash", "time"}
              /\ <<height', last_height'>> # <<height, last_height>>) =>
               /\ r.kind = "continue"
               /\ height' = r.height
               /\ last_height' = r.last
        /\ (hpc # "returned" /\ hpc' = "returned") =>
               (r.kind = "return" /\ hres' = Ok(r.value))
        /\ (hpc \in {"hash", "time"} /\ hpc' = "panicked") =>
               (r.kind = "panic" \/ height = 0)
      ]_vars

\* C16 witness: the call returned a height past block 1 although the last
\* lookup was disconnected five times before it was answered.
C16_Witness ==
    /\ hpc = "returned"
    /\ height > 1
    /\ attempts = 6
    /\ \A i \in 1..5 : history[i].tag = "ErrDisconnected"

\* C17: create_twin and create_farm submit their extrinsic once per
\* invocation of the retry loop: an attempt reported as a disconnect is
\* followed by another submission while the loop has passes left, whether or
\* not the first one reached the node; at most 6 submissions are made and at
\* most 6 reach the node; nothing is submitted after an attempt whose result
\* was not a disconnect; the other methods submit nothing.
C17_ResubmitOnlyAfterDisconnect ==
    [][ /\ attempts' <= 6
        /\ delivered' <= attempts'
        /\ (op' \notin SubmitOps) => delivered' = 0
        /\ (op \in SubmitOps /\ rpc = "match" /\ res.tag = "ErrDisconnected"
              /\ attempts < 6) =>
               attempts' = attempts + 1
        /\ (attempts >= 1 /\ attempts' = attempts + 1) =>
               (res.tag = "ErrDisconnected" /\ \A i \in 1..attempts :
                                                 history[i].tag = "ErrDisconnected")
        /\ (attempts >= 1 /\ res.tag # "ErrDisconnected") =>
               (attempts' = attempts /\ delivered' = delivered)
      ]_vars

\* C17 witness: one call delivered its extrinsic to the node six times, each
\* delivery reported as a disconnect.
C17_Witness ==
    /\ call \in SubmitOps
    /\ rpc = "done"
    /\ delivered = 6
    /\ ret.tag = "ErrDisconnected"

\* C18: whenever height_at_timestamp returns a height, a block exists at
\* that height at that moment: the height does not exceed the tip.
C18_ReturnedBlockExists == hpc = "returned" => hres.val \in 0..Tip

\* The call died on "negative height search".
NegativeHeightPanic ==
    /\ hpc = "panicked"
    /\ op = "block_timestamp"
    /\ arg # NoBlock
    /\ rpc = "done"

\* C19: for a target between block 1's and the latest block's timestamp, the
\* call never dies on the negative-height check and never looks up height 0:
\* every probed height is >= 1.
C19_StaysAboveGenesis ==
    (Sec(1) <= ts /\ ts <= Sec(Tip)) =>
        /\ ~NegativeHeightPanic
        /\ \A h \in probed : h >= 1

\* C20: once the search has started, last_height is 1 or a height whose hash
\* lookup found a block earlier in the run; it is assigned 1 at the start
\* and otherwise only the current height, in an iteration that found that
\* height's block; an iteration whose lookup reported no block leaves it.
C20_LastHeightWasFound ==
    [][ /\ (probed' # {}) => (last_height' = 1 \/ last_height' \in found')
        /\ (last_height' # last_height) =>
               \/ hpc = "latest" /\ last_height' = 1
               \/ /\ hpc = "time"
                  /\ height \in found
                  /\ ret = ChainAnswer("block_timestamp", height)
                  /\ last_height' = height
        /\ (hpc = "hash" /\ ret = OkNone) => last_height' = last_height
      ]_vars

\* C20 witness: last_height has moved to a found block past block 1 and the
\* next estimate is being looked up.
C20_Witness ==
    /\ hpc = "hash"
    /\ rpc = "start"
    /\ last_height > 1
    /\ last_height \in found
    /\ height # last_height

====
